---- MODULE Spec2Model ----
(***************************************************************************)
(* dbot: the profile compiler.                                             *)
(*                                                                         *)
(*   Profile::into_entries  (src/src/profile.rs)                           *)
(*       build_component_tree / update_component_tree: re-roots the        *)
(*       declaration tree one path component at a time, merging the        *)
(*       attribute fragments that land on the same node;                   *)
(*       collect_entries_from_node: inherits, validates and finalizes the  *)
(*       attributes of every node, then the entries are sorted by target.  *)
(*   compile / compile_entry  (src/src/compile.rs)                         *)
(*       expands the entries, last to first, against the source            *)
(*       filesystem into the map target -> {source, type}.                 *)
(*                                                                         *)
(* Data encoding.  Option<T> is a sequence of length 0 (None) or 1         *)
(* (Some).  A path is the sequence of its components.  A HashMap is a      *)
(* function; its iteration order is arbitrary, so every loop over one      *)
(* picks the next key nondeterministically.  Recursion is an explicit      *)
(* stack of frames, one frame per active call, holding the keys the        *)
(* call's loop has not visited yet.                                        *)
(***************************************************************************)
EXTENDS Integers, Sequences, FiniteSets, TLC

VARIABLES
    mrg,        \* a call of Merge for ProfileAttrBuilder on Rc-held ignore lists
    load,       \* Runtime::load_profile: the content loaded so far, the imports left
    rt,         \* the Runtime of the running dbot process, if any
    home,       \* the target filesystem: path -> what is there
    hfile,      \* history.yaml: the persisted history, oldest entry first
    doc,        \* the profile document being read, if the run starts there
    norm,       \* the active normalize_path call of the reader, if any
    profile,    \* Profile.root: declaration key-path -> ProfileAttrBuilder
    pc,         \* position of the run
    tree,       \* ComponentNode tree: target path -> ProfileAttrBuilder
    bstack,     \* active update_component_tree calls
    rcs,        \* the Rc<CachedPatternSetBuilder> objects made by inherit_attr
    cstack,     \* active collect_entries_from_node calls
    collected,  \* collect_to, in push order
    entries,    \* ProfileEntries returned by into_entries
    unix,       \* cfg!(unix) of the build
    fs,         \* the source filesystem compile reads
    idx,        \* entries still to compile are entries[1..idx]
    estack,     \* active compile_entry calls that are listing a directory
    compiled,   \* CompiledEntries: target -> CompiledProfile
    last,       \* what the most recent compile_entry call did
    err         \* the error returned, if any

vars == <<mrg, load, rt, home, hfile, doc, norm, profile, pc, tree, bstack, rcs,
          cstack, collected, entries, unix, fs, idx, estack, compiled, last, err>>

\* the state of the dbot binary, which the library calls leave alone
bin == <<load, rt, home, hfile>>

(***************************************************************************)
(* Bounds of the model.                                                    *)
(***************************************************************************)
\* longest ignore list a single declaration carries
MaxIgnore == 1
\* symbolic links followed while resolving one path before the lookup fails
MaxHops == 2
\* deepest directory nesting below a source directory
MaxDirDepth == 1

(***************************************************************************)
(* Option, paths, names.                                                   *)
(***************************************************************************)
None == <<>>
Some(v) == <<v>>
IsSome(o) == Len(o) = 1
Unwrap(o) == o[1]

\* Option::or with the operands exchanged: the parent's value wins
OptOrParentFirst(a, b) == IF IsSome(b) THEN b ELSE a

\* Option::or
OptOr(a, b) == IF IsSome(a) THEN a ELSE b

\* Path::join with a relative right-hand side
Join(p, q) == p \o q

IsPrefix(p, q) == Len(p) <= Len(q) /\ SubSeq(q, 1, Len(p)) = p
IsStrictPrefix(p, q) == Len(p) < Len(q) /\ SubSeq(q, 1, Len(p)) = p
Parent(p) == SubSeq(p, 1, Len(p) - 1)
Last(s) == s[Len(s)]

\* the component names of the model, in byte order
NameOrder == <<"a", "b", "f", "s1", "x", "y">>
Names == {NameOrder[i] : i \in 1..Len(NameOrder)}
NameRank(n) == CHOOSE i \in 1..Len(NameOrder) : NameOrder[i] = n

\* the characters of a name
Chars(n) == IF n = "s1" THEN <<"s", "1">> ELSE <<n>>

\* Ord for Path: component-wise lexicographic, a proper prefix sorts first
RECURSIVE PathLess(_, _)
PathLess(p, q) ==
    IF q = <<>> THEN FALSE
    ELSE IF p = <<>> THEN TRUE
    ELSE IF Head(p) = Head(q) THEN PathLess(Tail(p), Tail(q))
    ELSE NameRank(Head(p)) < NameRank(Head(q))

(***************************************************************************)
(* Glob patterns.  A glob is its token sequence: a literal character or    *)
(* "*", which matches any run of characters, "/" included.                 *)
(***************************************************************************)
GlobS == <<"s", "*">>
GlobB == <<"b">>
GlobBAll == <<"b", "/", "*">>
\* a valid glob whose compiled automaton exceeds the matcher's size limit
GlobTooBig == <<"{", "*", "}">>
GlobList == <<GlobS, GlobBAll, GlobB>>

RECURSIVE GlobMatch(_, _)
GlobMatch(g, s) ==
    IF g = <<>> THEN s = <<>>
    ELSE IF Head(g) = "*"
         THEN GlobMatch(Tail(g), s) \/ (s /= <<>> /\ GlobMatch(g, Tail(s)))
         ELSE s /= <<>> /\ Head(s) = Head(g) /\ GlobMatch(Tail(g), Tail(s))

\* PatternSet::is_match: a compiled set, kept as the globs it was built from
IsMatch(set, chars) == \E i \in 1..Len(set) : GlobMatch(set[i], chars)

\* PatternSetBuilder::build: None when the set cannot be compiled
PatternSetBuild(globs) ==
    IF \E i \in 1..Len(globs) : globs[i] = GlobTooBig THEN None ELSE Some(globs)

(***************************************************************************)
(* ProfileAttrBuilder and its merge.                                       *)
(***************************************************************************)
DefaultAttr == [source |-> None, ty |-> None, recursive |-> None, ignore |-> None]

\* a merge that keeps a value once it is set
MergeOptionKeepFirst(self, other) == IF IsSome(self) THEN self ELSE other

\* Merge for Option<T>
MergeOption(self, other) == IF IsSome(other) THEN other ELSE self

\* the ignore field of Merge for ProfileAttrBuilder
MergeIgnore(self, other) ==
    IF IsSome(other) /\ Unwrap(other) /= <<>>
    THEN Some((IF IsSome(self) THEN Unwrap(self) ELSE <<>>) \o Unwrap(other))
    ELSE self

\* Merge for ProfileAttrBuilder
MergeAttr(self, other) ==
    [source    |-> MergeOption(self.source, other.source),
     ty        |-> MergeOption(self.ty, other.ty),
     recursive |-> MergeOption(self.recursive, other.recursive),
     ignore    |-> MergeIgnore(self.ignore, other.ignore)]

(***************************************************************************)
(* The declaration tree.  A declaration is named by the sequence of keys   *)
(* leading to it; a key is a normalized path of one or more components.    *)
(***************************************************************************)
DeclChildren(p, kp) ==
    {c \in DOMAIN p : Len(c) = Len(kp) + 1 /\ SubSeq(c, 1, Len(kp)) = kp}

\* the target path a declaration denotes: its keys, concatenated
RECURSIVE DeclTarget(_)
DeclTarget(kp) == IF kp = <<>> THEN <<>> ELSE Join(DeclTarget(Parent(kp)), Last(kp))

(***************************************************************************)
(* Reading a declaration.  A path string is given by whether it starts     *)
(* with "/" and by the segments between its separators; a glob string is   *)
(* its token sequence.  The reader normalizes the key, then the source,    *)
(* then parses the globs of the ignore list.                               *)
(***************************************************************************)
RootDir == [kind |-> "RootDir", name |-> "/"]
CurDir == [kind |-> "CurDir", name |-> "."]
ParentDir == [kind |-> "ParentDir", name |-> ".."]
Prefix(n) == [kind |-> "Prefix", name |-> n]
Normal(n) == [kind |-> "Normal", name |-> n]

\* the components of the segments from position i on; `bare` tells that
\* neither a prefix nor a root precedes the first segment
RECURSIVE SegComponents(_, _, _)
SegComponents(segs, i, bare) ==
    IF i > Len(segs) THEN <<>>
    ELSE LET rest == SegComponents(segs, i + 1, bare)
         IN  CASE segs[i] = "" -> rest
               [] segs[i] = "." -> IF i = 1 /\ bare THEN <<CurDir>> \o rest ELSE rest
               [] segs[i] = ".." -> <<ParentDir>> \o rest
               [] OTHER -> <<Normal(segs[i])>> \o rest

\* Path::new(path).components(): a drive prefix exists only off unix
Components(path, isUnix) ==
    LET prefixed == ~isUnix /\ ~path.root /\ path.segs # <<>> /\ path.segs[1] = "C:"
    IN  IF prefixed
        THEN <<Prefix("C:")>> \o (IF Len(path.segs) > 1 THEN <<RootDir>> ELSE <<>>)
                 \o SegComponents(Tail(path.segs), 1, FALSE)
        ELSE IF path.root
        THEN <<RootDir>> \o SegComponents(path.segs, 1, FALSE)
        ELSE SegComponents(path.segs, 1, TRUE)

\* normalize_path with a ".." that removes nothing
NormalizeComponentNoPop(buf, compo) ==
    CASE compo.kind \in {"CurDir", "RootDir", "ParentDir"} -> Some(buf)
      [] compo.kind = "Prefix" -> None
      [] OTHER -> Some(Append(buf, compo.name))

\* one round of the loop of normalize_path: the new buffer, or None when
\* the call returns PathStartsWithPrefix
NormalizeComponent(buf, compo) ==
    CASE compo.kind \in {"CurDir", "RootDir"} -> Some(buf)
      [] compo.kind = "ParentDir" -> Some(Parent(buf))
      [] compo.kind = "Prefix" -> None
      [] OTHER -> Some(Append(buf, compo.name))

\* a Glob::new that accepts every string
GlobNewUnchecked(g) == Some(g)

\* Glob::new: a character class or an alternation left open is a syntax
\* error
GlobNew(g) ==
    LET Open(o, c) == \E i \in 1..Len(g) :
                          /\ g[i] = o
                          /\ \A j \in (i + 1)..Len(g) : g[j] # c
    IN  IF Open("[", "]") \/ Open("{", "}") THEN None ELSE Some(g)

\* the reader meets the key of the declaration
ReadKey ==
    /\ pc = "read"
    /\ norm' = Some([of |-> "key", rest |-> Components(Unwrap(doc).key, unix),
                     buf |-> <<>>, key |-> <<>>])
    /\ pc' = "normalize"
    /\ UNCHANGED <<mrg, bin, doc, profile, tree, bstack, rcs, cstack,
                   collected, entries, unix, fs, idx, estack, compiled, last,
                   err>>

\* normalize_path handles its next component
NormalizeStep ==
    /\ pc = "normalize"
    /\ Unwrap(norm).rest # <<>>
    /\ LET call == Unwrap(norm)
           out == NormalizeComponent(call.buf, Head(call.rest))
       IN  IF IsSome(out)
           THEN /\ norm' = Some([call EXCEPT !.rest = Tail(call.rest),
                                             !.buf = Unwrap(out)])
                /\ UNCHANGED <<pc, err>>
           ELSE /\ norm' = None
                /\ pc' = "rejected"
                /\ err' = Some([kind |-> "PathStartsWithPrefix", path |-> <<>>])
    /\ UNCHANGED <<mrg, bin, doc, profile, tree, bstack, rcs, cstack,
                   collected, entries, unix, fs, idx, estack, compiled, last>>

\* normalize_path returns its buffer: after the key the reader goes on to
\* the source, after the source to the ignore list
NormalizeReturn ==
    /\ pc = "normalize"
    /\ Unwrap(norm).rest = <<>>
    /\ LET call == Unwrap(norm)
       IN  IF call.of = "key"
           THEN /\ norm' = Some([of |-> "source",
                                 rest |-> Components(Unwrap(doc).source, unix),
                                 buf |-> <<>>, key |-> call.buf])
                /\ pc' = pc
           ELSE /\ norm' = Some([call EXCEPT !.of = "done"])
                /\ pc' = "globs"
    /\ UNCHANGED <<mrg, bin, doc, profile, tree, bstack, rcs, cstack,
                   collected, entries, unix, fs, idx, estack, compiled, last,
                   err>>

\* the ignore list is deserialized glob by glob; with every glob parsed the
\* declaration is complete and the profile is handed to into_entries
ReadIgnore ==
    /\ pc = "globs"
    /\ LET call == Unwrap(norm)
           raw == Unwrap(doc).ignore
           globs == IF IsSome(raw) THEN Unwrap(raw) ELSE <<>>
           parsed == [i \in 1..Len(globs) |-> GlobNew(globs[i])]
       IN  IF \E i \in 1..Len(globs) : ~IsSome(parsed[i])
           THEN /\ pc' = "rejected"
                /\ err' = Some([kind |-> "InvalidPatternFormat", path |-> <<>>])
                /\ UNCHANGED profile
           ELSE /\ profile' = (<<>> :> DefaultAttr) @@
                      (<<call.key>> :>
                          [source |-> Some(call.buf), ty |-> None, recursive |-> None,
                           ignore |-> IF IsSome(raw)
                                      THEN Some([i \in 1..Len(globs) |-> Unwrap(parsed[i])])
                                      ELSE None])
                /\ pc' = "init"
                /\ UNCHANGED err
    /\ norm' = None
    /\ UNCHANGED <<mrg, bin, doc, tree, bstack, rcs, cstack, collected,
                   entries, unix, fs, idx, estack, compiled, last>>

(***************************************************************************)
(* build_component_tree.                                                   *)
(***************************************************************************)
TreeChildren(t, path) ==
    {Last(c) : c \in {d \in DOMAIN t : Len(d) = Len(path) + 1 /\ IsPrefix(path, d)}}

\* the walk creating the last node only, under the node it started from
BetweenEndsOnly(from, to) == {from, to}

\* the nodes `entry(compo).or_default()` creates on the way from `from` to `to`
Between(from, to) == {SubSeq(to, 1, n) : n \in Len(from)..Len(to)}

\* update_component_tree up to the merge: walk to the node and merge the
\* declaration's attributes into it
TreeMerge(t, from, to, attr) ==
    [q \in DOMAIN t \cup Between(from, to) |->
        LET old == IF q \in DOMAIN t THEN t[q] ELSE DefaultAttr
        IN  IF q = to THEN MergeAttr(old, attr) ELSE old]

\* into_entries, first step: build_component_tree calls update_component_tree
\* on the root declaration
IntoEntries ==
    /\ pc = "init"
    /\ tree' = TreeMerge(<<>> :> DefaultAttr, <<>>, <<>>, profile[<<>>])
    /\ bstack' = <<[kp |-> <<>>, at |-> <<>>, rest |-> DeclChildren(profile, <<>>)]>>
    /\ pc' = "build"
    /\ UNCHANGED <<mrg, bin, doc, norm, profile, rcs, cstack, collected,
                   entries, unix, fs, idx, estack, compiled, last, err>>

\* update_component_tree: the loop over node.children takes one more child
BuildChild ==
    /\ pc = "build"
    /\ bstack /= <<>>
    /\ LET top == bstack[Len(bstack)]
       IN  \E kp \in top.rest :
             LET at == Join(top.at, Last(kp))
                 popped == [bstack EXCEPT ![Len(bstack)].rest = top.rest \ {kp}]
             IN  /\ tree' = TreeMerge(tree, top.at, at, profile[kp])
                 /\ bstack' = Append(popped,
                         [kp |-> kp, at |-> at, rest |-> DeclChildren(profile, kp)])
    /\ UNCHANGED <<mrg, bin, doc, norm, profile, pc, rcs, cstack, collected,
                   entries, unix, fs, idx, estack, compiled, last, err>>

\* update_component_tree returns; the last return ends build_component_tree
BuildReturn ==
    /\ pc = "build"
    /\ bstack /= <<>>
    /\ bstack[Len(bstack)].rest = {}
    /\ bstack' = SubSeq(bstack, 1, Len(bstack) - 1)
    /\ pc' = IF Len(bstack) = 1 THEN "collect" ELSE "build"
    /\ UNCHANGED <<mrg, bin, doc, norm, profile, tree, rcs, cstack, collected,
                   entries, unix, fs, idx, estack, compiled, last, err>>

(***************************************************************************)
(* collect_entries_from_node.  While the entries are collected an ignore   *)
(* list is a shared Rc<CachedPatternSetBuilder>: rcs holds the objects     *)
(* and an attribute holds the index of its object.                         *)
(***************************************************************************)
\* a node's own list as the Rc the component tree hands over
CachedBuilder(globs) == [builder |-> globs, cache |-> None]

\* extend_set_build that forgets to append the parent's globs
ExtendSetBuildOwnOnly(this, parent) == this

\* extend_set_build: rc_unwrap_or_clone(this), then append the parent's globs
ExtendSetBuild(this, parent) ==
    [builder |-> this.builder \o parent.builder, cache |-> this.cache]

\* the `ignore` match of inherit_attr: the heap afterwards and the handle
InheritIgnore(own, parentH, heap) ==
    IF IsSome(own) /\ IsSome(parentH)
    THEN [heap |-> Append(heap, ExtendSetBuild(CachedBuilder(Unwrap(own)),
                                               heap[Unwrap(parentH)])),
          h |-> Some(Len(heap) + 1)]
    ELSE IF IsSome(own)
    THEN [heap |-> Append(heap, CachedBuilder(Unwrap(own))), h |-> Some(Len(heap) + 1)]
    ELSE [heap |-> heap, h |-> parentH]

\* inherit_attr handing the parent's source down without the join
InheritSourceNoJoin(target, own, parentSource) ==
    IF IsSome(own) THEN own ELSE parentSource

\* inherit_attr keeping only a node's own source
InheritSourceOwnOnly(target, own, parentSource) == own

\* the `source` of inherit_attr; target is the node's own component
InheritSource(target, own, parentSource) ==
    IF IsSome(own) THEN own
    ELSE IF IsSome(parentSource) THEN Some(Join(Unwrap(parentSource), target))
    ELSE None

\* inherit_attr
InheritAttr(target, attr, parent, heap) ==
    LET ig == InheritIgnore(attr.ignore, parent.ignore, heap)
    IN  [attr |-> [source    |-> InheritSource(target, attr.source, parent.source),
                   ty        |-> OptOr(attr.ty, parent.ty),
                   recursive |-> OptOr(attr.recursive, parent.recursive),
                   ignore    |-> ig.h],
         heap |-> ig.heap]

\* the validation applied only to nodes that have a source
InvalidNeedsSource(attr, children) ==
    /\ IsSome(attr.source)
    /\ attr.ty \in {Some("Template"), Some("Link")}
    /\ attr.recursive /= Some(TRUE)
    /\ children /= {}

\* step 2 of collect_entries_from_node: the node may not have children
Invalid(attr, children) ==
    /\ attr.ty \in {Some("Template"), Some("Link")}
    /\ attr.recursive /= Some(TRUE)
    /\ children /= {}

\* CachedPatternSetBuilder::build: the object afterwards and the matcher
CachedBuild(obj) ==
    IF IsSome(obj.cache) THEN [obj |-> obj, set |-> obj.cache]
    ELSE LET built == PatternSetBuild(obj.builder)
         IN  [obj |-> [obj EXCEPT !.cache = built], set |-> built]

\* ProfileAttrBuilder::build for an attribute that has a source and whose
\* matcher could be built
ProfileAttr(attr, set) ==
    [source    |-> Unwrap(attr.source),
     ty        |-> IF IsSome(attr.ty) THEN Unwrap(attr.ty) ELSE "Copy",
     recursive |-> IF IsSome(attr.recursive) THEN Unwrap(attr.recursive) ELSE FALSE,
     ignore    |-> set]

\* slice::sort_by on the target path (stable insertion)
RECURSIVE InsertEntry(_, _)
InsertEntry(sorted, e) ==
    IF sorted = <<>> THEN <<e>>
    ELSE IF PathLess(e.target, Head(sorted).target) THEN <<e>> \o sorted
    ELSE <<Head(sorted)>> \o InsertEntry(Tail(sorted), e)

\* into_entries returning the entries in the order they were pushed
SortEntriesPushOrder(seq) == seq

RECURSIVE SortEntries(_)
SortEntries(seq) ==
    IF seq = <<>> THEN <<>>
    ELSE InsertEntry(SortEntries(SubSeq(seq, 1, Len(seq) - 1)), seq[Len(seq)])

\* a call of collect_entries_from_node, steps 1 and 2: inherit, validate,
\* and start the loop over the children
CollectEnter(comp, full, parent, stack) ==
    LET inh == InheritAttr(comp, tree[full], parent, rcs)
        children == TreeChildren(tree, full)
    IN  /\ rcs' = inh.heap
        /\ IF Invalid(inh.attr, children)
           THEN /\ pc' = "failed"
                /\ err' = Some([kind |-> "UnexpectedChildren", path |-> full])
                /\ cstack' = <<>>
           ELSE /\ pc' = "collecting"
                /\ err' = err
                /\ cstack' = Append(stack,
                        [target |-> full, attr |-> inh.attr, rest |-> children])

\* into_entries calls collect_entries_from_node on the root of the tree
CollectRoot ==
    /\ pc = "collect"
    /\ CollectEnter(<<>>, <<>>, DefaultAttr, <<>>)
    /\ UNCHANGED <<mrg, bin, doc, norm, profile, tree, bstack, collected,
                   entries, unix, fs, idx, estack, compiled, last>>

\* step 3: the loop over the children takes one more child
CollectChild ==
    /\ pc = "collecting"
    /\ cstack /= <<>>
    /\ LET top == cstack[Len(cstack)]
       IN  \E c \in top.rest :
             CollectEnter(<<c>>, Append(top.target, c), top.attr,
                          [cstack EXCEPT ![Len(cstack)].rest = top.rest \ {c}])
    /\ UNCHANGED <<mrg, bin, doc, norm, profile, tree, bstack, collected,
                   entries, unix, fs, idx, estack, compiled, last>>

\* step 4: build the attribute, push the entry, return; the last return is
\* followed by the sort that ends into_entries
CollectFinish ==
    /\ pc = "collecting"
    /\ cstack /= <<>>
    /\ LET top == cstack[Len(cstack)]
           h == top.attr.ignore
           cb == IF IsSome(h) THEN CachedBuild(rcs[Unwrap(h)])
                 ELSE [obj |-> CachedBuilder(<<>>), set |-> Some(<<>>)]
           pushed == IF IsSome(top.attr.source)
                     THEN Append(collected, [target |-> top.target,
                                             attr |-> ProfileAttr(top.attr, Unwrap(cb.set))])
                     ELSE collected
       IN  /\ top.rest = {}
           /\ IF IsSome(top.attr.source) /\ ~IsSome(cb.set)
              THEN /\ pc' = "failed"
                   /\ err' = Some([kind |-> "InvalidPatternSet", path |-> top.target])
                   /\ cstack' = <<>>
                   /\ UNCHANGED <<rcs, collected, entries>>
              ELSE /\ rcs' = IF IsSome(top.attr.source) /\ IsSome(h)
                             THEN [rcs EXCEPT ![Unwrap(h)] = cb.obj] ELSE rcs
                   /\ collected' = pushed
                   /\ cstack' = SubSeq(cstack, 1, Len(cstack) - 1)
                   /\ IF Len(cstack) = 1
                      THEN pc' = "ready" /\ entries' = SortEntries(pushed)
                      ELSE pc' = "collecting" /\ entries' = entries
                   /\ err' = err
    /\ UNCHANGED <<mrg, bin, doc, norm, profile, tree, bstack, unix, fs, idx,
                   estack, compiled, last>>

(***************************************************************************)
(* The source filesystem: absolute path -> node.  A node is a regular      *)
(* file, a directory or a symbolic link to an absolute path.               *)
(***************************************************************************)
\* CompilerOptions.source and CompilerOptions.target
OptSource == <<"/s">>
OptTarget == <<"~">>

FileNode == [kind |-> "file", to |-> <<>>]
DirNode == [kind |-> "dir", to |-> <<>>]
LinkNode(t) == [kind |-> "link", to |-> t]

\* path resolution as stat(2) does it: every component that is a symbolic
\* link is followed, the last one included; None when a component is
\* missing, is not a directory, or more than `hops` links are crossed
Resolve(f, done, todo, hops) ==
    LET Walk[at \in Seq(STRING) \X Seq(STRING) \X Nat] ==
            IF at[2] = <<>> THEN Some(at[1])
            ELSE LET p == Append(at[1], Head(at[2]))
                 IN  IF p \notin DOMAIN f THEN None
                     ELSE IF f[p].kind = "link"
                          THEN IF at[3] = 0 THEN None
                               ELSE Walk[<<<<>>, f[p].to \o Tail(at[2]), at[3] - 1>>]
                     ELSE IF f[p].kind = "file" /\ Tail(at[2]) /= <<>> THEN None
                     ELSE Walk[<<p, Tail(at[2]), at[3]>>]
    IN  Walk[<<done, todo, hops>>]

\* Path::metadata: the metadata of the node the path resolves to
Metadata(f, p) ==
    LET r == Resolve(f, <<>>, p, MaxHops)
        kind == IF IsSome(r) THEN f[Unwrap(r)].kind ELSE "none"
    IN  [ok |-> IsSome(r), is_dir |-> kind = "dir", is_symlink |-> kind = "link"]

\* std::fs::read_link: the target of the link the path names
ReadLink(f, p) ==
    LET r == Resolve(f, <<>>, Parent(p), MaxHops)
        q == Append(Unwrap(r), Last(p))
    IN  IF IsSome(r) /\ q \in DOMAIN f /\ f[q].kind = "link" THEN Some(f[q].to) ELSE None

\* std::fs::read_dir: the file names in the directory the path resolves to
ReadDir(f, p) ==
    LET r == Resolve(f, <<>>, p, MaxHops)
    IN  IF IsSome(r) /\ f[Unwrap(r)].kind = "dir"
        THEN Some({Last(q) : q \in {d \in DOMAIN f : Parent(d) = Unwrap(r) /\ d /= <<>>}})
        ELSE None

(***************************************************************************)
(* compile and compile_entry.                                              *)
(***************************************************************************)
\* compile passing attr.recursive alone
RecursiveFlagOnly(attr) == attr.recursive

\* the `recursive` argument compile passes to compile_entry
EffectiveRecursive(attr) == attr.recursive \/ attr.ty = "Copy"

\* the matcher asked about the path relative to the entry's target
MatchRelativePath(target, filename, e) ==
    LET RECURSIVE PathChars(_)
        PathChars(rel) ==
            IF Len(rel) = 1 THEN Chars(rel[1])
            ELSE Chars(rel[1]) \o <<"/">> \o PathChars(Tail(rel))
    IN  PathChars(SubSeq(Append(target, filename),
                         Len(OptTarget) + Len(entries[e].target) + 1, Len(target) + 1))

\* the file name handed to attr.ignore.is_match in the loop of compile_entry
MatchSubject(target, filename, e) == Chars(filename)

\* compile_entry without its first check
NeverCompiled(target, map) == FALSE

\* the first check made on the directory the target lies in
AlreadyCompiledParent(target, map) == Parent(target) \in DOMAIN map

\* whether compile_entry stops at its first check
AlreadyCompiled(target, map) == target \in DOMAIN map

\* step 3 listing the directory of a Link that is not recursive
DirActionLinkListed(is_dir, recursive, ty) ==
    IF is_dir /\ (recursive \/ ty = "Link") THEN "list"
    ELSE IF is_dir /\ ty = "Template" THEN "fail"
    ELSE "insert"

\* step 3 with its check made on the Link type
DirActionLinkRefused(is_dir, recursive, ty) ==
    IF is_dir /\ recursive THEN "list"
    ELSE IF is_dir /\ ty = "Link" THEN "fail"
    ELSE "insert"

\* step 3 without the Template check
DirActionNoTemplateCheck(is_dir, recursive, ty) ==
    IF is_dir /\ recursive THEN "list" ELSE "insert"

\* step 3 of compile_entry: what is done with a source that exists
DirAction(is_dir, recursive, ty) ==
    IF is_dir /\ recursive THEN "list"
    ELSE IF is_dir /\ ty = "Template" THEN "fail"
    ELSE "insert"

\* an error that is recorded while the loop of compile goes on
CompileFailContinue(kind, path, op, target) ==
    /\ pc' = pc
    /\ err' = Some([kind |-> kind, path |-> path])
    /\ estack' = <<>>
    /\ last' = Some([op |-> op, target |-> target, source |-> path])
    /\ UNCHANGED compiled

\* an error return out of compile: `?` unwinds every active call
CompileFail(kind, path, op, target) ==
    /\ pc' = "failed"
    /\ err' = Some([kind |-> kind, path |-> path])
    /\ estack' = <<>>
    /\ last' = Some([op |-> op, target |-> target, source |-> path])
    /\ UNCHANGED compiled

\* one call of compile_entry for entries[e], with `stack` the calls that
\* stay active around it
CompileEntry(target, source0, e, stack) ==
    LET attr == entries[e].attr
        md == Metadata(fs, source0)
        link == IF md.ok /\ md.is_symlink THEN ReadLink(fs, source0) ELSE Some(source0)
        source == IF IsSome(link) THEN Unwrap(link) ELSE source0
        listing == ReadDir(fs, source)
        action == DirAction(md.is_dir, EffectiveRecursive(attr), attr.ty)
    IN  IF AlreadyCompiled(target, compiled)
        THEN /\ estack' = stack
             /\ last' = Some([op |-> "compiled", target |-> target, source |-> source0])
             /\ UNCHANGED <<pc, err, compiled>>
        ELSE IF ~md.ok \/ ~IsSome(link)
        THEN CompileFail("IoFailed", source0, "fail", target)
        ELSE IF action = "list"
        THEN IF ~IsSome(listing)
             THEN CompileFail("IoFailed", source, "fail", target)
             ELSE /\ estack' = Append(stack, [target |-> target, source |-> source,
                                              e |-> e, rest |-> Unwrap(listing)])
                  /\ last' = Some([op |-> "list", target |-> target, source |-> source])
                  /\ UNCHANGED <<pc, err, compiled>>
        ELSE IF action = "fail"
        THEN CompileFail("UnexpectedDirectoryForTemplate", source, "fail", target)
        ELSE /\ compiled' = (target :> [source |-> source, ty |-> attr.ty]) @@ compiled
             /\ estack' = stack
             /\ last' = Some([op |-> "insert", target |-> target, source |-> source])
             /\ UNCHANGED <<pc, err>>

\* the first entry taken before the others, which follow last to first
FirstThenBack(i) == (i % Len(entries)) + 1

\* the entries taken first to last
FromFront(i) == Len(entries) - i + 1

\* into_iter().rev(): with i entries left to compile, the next is entries[i]
FromBack(i) == i

\* compile is called with the entries, on some platform and filesystem
Compile(platforms) ==
    /\ pc = "ready"
    /\ pc' = "compile"
    /\ \E pf \in platforms : unix' = pf[1] /\ fs' = pf[2]
    /\ compiled' = <<>>
    /\ idx' = Len(entries)
    /\ UNCHANGED <<mrg, bin, doc, norm, profile, tree, bstack, rcs, cstack,
                   collected, entries, estack, last, err>>

\* the loop of compile takes the next entry, from the last one backwards
CompileNext ==
    /\ pc = "compile"
    /\ estack = <<>>
    /\ idx > 0
    /\ idx' = idx - 1
    /\ LET e == FromBack(idx)
           entry == entries[e]
       IN  IF ~unix /\ entry.attr.ty = "Link"
           THEN CompileFail("UnsupportedSymlinks", entry.attr.source, "fail",
                            Join(OptTarget, entry.target))
           ELSE CompileEntry(Join(OptTarget, entry.target),
                             Join(OptSource, entry.attr.source), e, <<>>)
    /\ UNCHANGED <<mrg, bin, doc, norm, profile, tree, bstack, rcs, cstack,
                   collected, entries, unix, fs>>

\* the loop over read_dir takes one more directory entry, in any order
CompileChild ==
    /\ pc = "compile"
    /\ estack /= <<>>
    /\ LET top == estack[Len(estack)]
       IN  \E filename \in top.rest :
             LET stack == [estack EXCEPT ![Len(estack)].rest = top.rest \ {filename}]
             IN  IF IsMatch(entries[top.e].attr.ignore,
                            MatchSubject(top.target, filename, top.e))
                 THEN /\ estack' = stack
                      /\ last' = Some([op |-> "ignore",
                                       target |-> Append(top.target, filename),
                                       source |-> Append(top.source, filename)])
                      /\ UNCHANGED <<pc, err, compiled>>
                 ELSE CompileEntry(Append(top.target, filename),
                                   Append(top.source, filename), top.e, stack)
    /\ UNCHANGED <<mrg, bin, doc, norm, profile, tree, bstack, rcs, cstack,
                   collected, entries, unix, fs, idx>>

\* a compile_entry call that stays on its finished listing
CompileReturnNever ==
    /\ pc = "compile"
    /\ estack /= <<>>
    /\ estack[Len(estack)].rest = {}
    /\ UNCHANGED vars

\* a compile_entry call that listed a directory returns
CompileReturn ==
    /\ pc = "compile"
    /\ estack /= <<>>
    /\ estack[Len(estack)].rest = {}
    /\ estack' = SubSeq(estack, 1, Len(estack) - 1)
    /\ UNCHANGED <<mrg, bin, doc, norm, profile, pc, tree, bstack, rcs,
                   cstack, collected, entries, unix, fs, idx, compiled, last,
                   err>>

\* compile returns Ok(compiled)
CompileDone ==
    /\ pc = "compile"
    /\ estack = <<>>
    /\ idx = 0
    /\ pc' = "done"
    /\ UNCHANGED <<mrg, bin, doc, norm, profile, tree, bstack, rcs, cstack,
                   collected, entries, unix, fs, idx, estack, compiled, last,
                   err>>

(***************************************************************************)
(* The profiles the model reads.                                           *)
(***************************************************************************)
KA == <<"a">>
KB == <<"b">>
KAB == <<"a", "b">>
SrcX == <<"x">>
SrcY == <<"y">>

\* the ignore lists a declaration may carry: absent, empty, up to MaxIgnore
\* consecutive globs of GlobList, or a list that cannot be compiled
IgnoreChoices ==
    {None, Some(<<>>), Some(<<GlobTooBig>>)}
    \cup {Some(SubSeq(GlobList, ij[1], ij[2])) :
            ij \in {r \in (1..Len(GlobList)) \X (1..Len(GlobList)) :
                        r[1] <= r[2] /\ r[2] - r[1] < MaxIgnore}}

Attrs(S, T, R, I) == [source : S, ty : T, recursive : R, ignore : I]

AttrsScalar ==
    Attrs({None, Some(SrcX)}, {None, Some("Copy"), Some("Link"), Some("Template")},
          {None, Some(TRUE), Some(FALSE)}, {None})
AttrsSmall ==
    Attrs({None, Some(SrcX)}, {None, Some("Link")}, {None, Some(TRUE), Some(FALSE)},
          {None})
AttrsIgnore ==
    Attrs({None, Some(SrcX)}, {None}, {None}, IgnoreChoices)
AttrsRoot ==
    {DefaultAttr,
     [DefaultAttr EXCEPT !.source = Some(SrcY)],
     [DefaultAttr EXCEPT !.ty = Some("Link"), !.recursive = Some(TRUE)],
     [DefaultAttr EXCEPT !.ty = Some("Template")],
     [DefaultAttr EXCEPT !.source = Some(SrcY), !.ignore = Some(<<GlobB>>)]}

\* every profile of the given shape: the root declaration from rootAttrs,
\* the others from attrs
ProfilesOver(shape, rootAttrs, attrs) ==
    {[kp \in shape |-> IF kp = <<>> THEN r ELSE f[kp]] :
        r \in rootAttrs, f \in [shape \ {<<>>} -> attrs]}

ShapeA == {<<>>, <<KA>>}
ShapeNested == {<<>>, <<KA>>, <<KA, KB>>}
ShapeFlat == {<<>>, <<KAB>>}
ShapeSiblings == {<<>>, <<KA>>, <<KB>>}
ShapeMixed == {<<>>, <<KA>>, <<KAB>>}
ShapeBoth == {<<>>, <<KA>>, <<KA, KB>>, <<KAB>>}
ShapeDeep == {<<>>, <<KA>>, <<KA, KB>>, <<KA, KB, KA>>}
ShapeTwoSubtrees == {<<>>, <<KA>>, <<KA, KB>>, <<KB>>, <<KB, KA>>}

AttrsTypes ==
    Attrs({None}, {None, Some("Copy"), Some("Link"), Some("Template")}, {None}, {None})

AttrsMixed ==
    {DefaultAttr,
     [DefaultAttr EXCEPT !.source = Some(SrcX)],
     [DefaultAttr EXCEPT !.ty = Some("Link")],
     [DefaultAttr EXCEPT !.ty = Some("Template"), !.recursive = Some(FALSE)],
     [DefaultAttr EXCEPT !.source = Some(SrcX), !.ignore = Some(<<GlobTooBig>>)],
     [DefaultAttr EXCEPT !.source = Some(SrcY), !.ty = Some("Link"),
                         !.recursive = Some(TRUE)]}

ProfilesEntries ==
    ProfilesOver(ShapeA, AttrsRoot, AttrsScalar \cup AttrsIgnore)
    \cup ProfilesOver(ShapeNested, AttrsRoot, AttrsScalar)
    \cup ProfilesOver(ShapeNested, AttrsRoot, AttrsIgnore)
    \cup ProfilesOver(ShapeFlat, AttrsRoot, AttrsScalar \cup AttrsIgnore)
    \cup ProfilesOver(ShapeSiblings, {DefaultAttr}, AttrsScalar)
    \cup ProfilesOver(ShapeSiblings, {DefaultAttr}, AttrsIgnore)
    \cup ProfilesOver(ShapeMixed, {DefaultAttr}, AttrsScalar)
    \cup ProfilesOver(ShapeBoth, {DefaultAttr}, AttrsSmall \cup AttrsIgnore)
    \cup ProfilesOver(ShapeBoth, {DefaultAttr}, AttrsTypes)
    \cup ProfilesOver(ShapeDeep, {DefaultAttr}, AttrsSmall)
    \cup ProfilesOver(ShapeDeep, {DefaultAttr}, AttrsIgnore)
    \cup ProfilesOver(ShapeTwoSubtrees, {DefaultAttr}, AttrsMixed)

\* the state before into_entries is called on a profile
InitWith(P) ==
    /\ mrg = None
    /\ load = None
    /\ rt = None
    /\ home = <<>>
    /\ hfile = <<>>
    /\ doc = None
    /\ norm = None
    /\ profile \in P
    /\ pc = "init"
    /\ tree = <<>> :> DefaultAttr
    /\ bstack = <<>>
    /\ rcs = <<>>
    /\ cstack = <<>>
    /\ collected = <<>>
    /\ entries = <<>>
    /\ unix = TRUE
    /\ fs = <<>>
    /\ idx = 0
    /\ estack = <<>>
    /\ compiled = <<>>
    /\ last = None
    /\ err = None

InitEntries == InitWith(ProfilesEntries)

NextEntries ==
    \/ IntoEntries
    \/ BuildChild
    \/ BuildReturn
    \/ CollectRoot
    \/ CollectChild
    \/ CollectFinish

SpecEntries == InitEntries /\ [][NextEntries]_vars

(***************************************************************************)
(* The documents the reader is run on.                                     *)
(***************************************************************************)
\* most segments a key string has
MaxSegs == 3

Segments == {"a", "b", ".", "..", ""}

SegsUpTo(n) == UNION {[1..k -> Segments] : k \in 0..n}

\* the path strings: "/"-separated segments, with or without a leading "/"
\* or a leading drive name
PathStrings ==
    {[root |-> r, segs |-> q] : r \in BOOLEAN, q \in SegsUpTo(MaxSegs)}
    \cup {[root |-> r, segs |-> <<"C:">> \o q] :
             r \in BOOLEAN, q \in SegsUpTo(MaxSegs - 1)}

DocKeys == {k \in PathStrings : k.root \/ k.segs = <<>> \/ k.segs[1] # ""}

DocSources ==
    {[root |-> FALSE, segs |-> <<"x">>],
     [root |-> FALSE, segs |-> <<".", "x">>],
     [root |-> FALSE, segs |-> <<"..", "x">>],
     [root |-> TRUE, segs |-> <<"x", "..", "y">>],
     [root |-> FALSE, segs |-> <<"C:", "x">>]}

GlobUnclosed == <<"[", "b">>

DocIgnores ==
    {None, Some(<<GlobB>>), Some(<<GlobTooBig>>), Some(<<GlobUnclosed>>),
     Some(<<GlobB, GlobUnclosed>>)}

Documents == [key : DocKeys, source : DocSources, ignore : DocIgnores]

\* the state before a document is read
InitRead ==
    /\ mrg = None
    /\ load = None
    /\ rt = None
    /\ home = <<>>
    /\ hfile = <<>>
    /\ doc \in {Some(d) : d \in Documents}
    /\ norm = None
    /\ profile = <<>> :> DefaultAttr
    /\ pc = "read"
    /\ tree = <<>> :> DefaultAttr
    /\ bstack = <<>>
    /\ rcs = <<>>
    /\ cstack = <<>>
    /\ collected = <<>>
    /\ entries = <<>>
    /\ unix \in BOOLEAN
    /\ fs = <<>>
    /\ idx = 0
    /\ estack = <<>>
    /\ compiled = <<>>
    /\ last = None
    /\ err = None

NextRead ==
    \/ ReadKey
    \/ NormalizeStep
    \/ NormalizeReturn
    \/ ReadIgnore
    \/ IntoEntries
    \/ BuildChild
    \/ BuildReturn
    \/ CollectRoot
    \/ CollectChild
    \/ CollectFinish

SpecRead == InitRead /\ [][NextRead]_vars

(***************************************************************************)
(* The profiles and source trees compile is run on.                        *)
(***************************************************************************)
\* a tree placed at `prefix`
Graft(prefix, frag) ==
    [q \in {prefix \o r : r \in DOMAIN frag} |-> frag[SubSeq(q, Len(prefix) + 1, Len(q))]]

FilesIn(F) == [q \in {<<n>> : n \in F} |-> FileNode]

\* the directories nested at most d deep: any files out of `files`, and b
\* absent, a file or such a directory again
RECURSIVE DirTrees(_, _)
DirTrees(files, d) ==
    {(<<>> :> DirNode) @@ FilesIn(F) @@ sub :
        F \in SUBSET files,
        sub \in {<<>>, Graft(<<"b">>, <<>> :> FileNode)}
                \cup (IF d = 0 THEN {}
                      ELSE {Graft(<<"b">>, t) : t \in DirTrees(files, d - 1)})}

\* what x is: a file, a directory holding f, or missing
TreesX ==
    {<<>> :> FileNode, (<<>> :> DirNode) @@ FilesIn({"f"}), <<>>}

\* what y is besides a directory: a file, or a link to x
TreesY ==
    {<<>> :> FileNode, <<>> :> LinkNode(Join(OptSource, SrcX))}

SourceTree(x, y) ==
    (OptSource :> DirNode) @@ Graft(Join(OptSource, SrcX), x)
                           @@ Graft(Join(OptSource, SrcY), y)

\* every tree on unix, and the trees with a flat y on a platform without
\* symbolic links
PlatformsOver(files) ==
    {<<TRUE, SourceTree(x, y)>> :
        x \in TreesX, y \in TreesY \cup DirTrees(files, MaxDirDepth)}
    \cup {<<FALSE, SourceTree(<<>> :> FileNode, y)>> : y \in DirTrees(files, 0)}

(***************************************************************************)
(* Spec: one declaration, a -> y, compiled against every source tree.      *)
(***************************************************************************)
AttrsCompile ==
    Attrs({Some(SrcY)}, {None, Some("Copy"), Some("Link"), Some("Template")},
          {None, Some(TRUE), Some(FALSE)},
          IgnoreChoices \ {Some(<<>>), Some(<<GlobTooBig>>)})

ProfilesCompile == ProfilesOver(ShapeA, {DefaultAttr}, AttrsCompile)

Platforms == PlatformsOver({"f", "s1"})

Init == InitWith(ProfilesCompile)

Next ==
    \/ NextEntries
    \/ Compile(Platforms)
    \/ CompileNext
    \/ CompileChild
    \/ CompileReturn
    \/ CompileDone

Spec == Init /\ [][Next]_vars

(***************************************************************************)
(* SpecPair: a declaration a -> y and a nested declaration a/b.            *)
(***************************************************************************)
AttrsPairA ==
    Attrs({Some(SrcY)}, {None, Some("Link"), Some("Template")},
          {None, Some(TRUE)}, {None, Some(<<GlobB>>), Some(<<GlobTooBig>>)})
AttrsPairB ==
    Attrs({None, Some(SrcX)}, {None, Some("Copy"), Some("Link"), Some("Template")},
          {None, Some(TRUE), Some(FALSE)}, {None})

ProfilesPair ==
    {[kp \in ShapeNested |->
        IF kp = <<>> THEN DefaultAttr ELSE IF kp = <<KA>> THEN a ELSE b] :
      a \in AttrsPairA, b \in AttrsPairB}

PlatformsPair == PlatformsOver({"f"})

InitPair == InitWith(ProfilesPair)

NextPair ==
    \/ NextEntries
    \/ Compile(PlatformsPair)
    \/ CompileNext
    \/ CompileChild
    \/ CompileReturn
    \/ CompileDone

SpecPair == InitPair /\ [][NextPair]_vars

(***************************************************************************)
(* Properties of compile.                                                  *)
(***************************************************************************)
AbsX == Join(OptSource, SrcX)
AbsY == Join(OptSource, SrcY)
TargetA == Join(OptTarget, <<"a">>)
TargetAB == Join(OptTarget, <<"a", "b">>)

\* the paths that can exist below a source directory
RelPaths == UNION {[1..n -> {"b", "f", "s1"}] : n \in 1..(MaxDirDepth + 1)}

NoComponentIgnored(set, rel) == \A i \in 1..Len(rel) : ~IsMatch(set, Chars(rel[i]))

\* a is declared {source: y, type: link, recursive: true} and a/b
\* {source: x, type: copy}
PrecedenceCase ==
    /\ {<<KA>>, <<KA, KB>>} \subseteq DOMAIN profile
    /\ profile[<<KA>>].source = Some(SrcY)
    /\ profile[<<KA>>].ty = Some("Link")
    /\ profile[<<KA>>].recursive = Some(TRUE)
    /\ profile[<<KA, KB>>].source = Some(SrcX)
    /\ profile[<<KA, KB>>].ty = Some("Copy")

ExplicitWins ==
    /\ TargetAB \in DOMAIN compiled
    /\ compiled[TargetAB] = [source |-> AbsX, ty |-> "Copy"]
    /\ compiled[TargetAB] /= [source |-> Append(AbsY, "b"), ty |-> "Link"]

\* C1 as stated: whenever compile succeeds on the precedence case, the map
\* holds a/b -> {x, Copy} and not a/b -> {y/b, Link}.
C1_PrecedenceAnySource == (pc = "done" /\ PrecedenceCase) => ExplicitWins

\* C1, amended: whenever compile succeeds on the precedence case and x is
\* not a directory, the map holds a/b -> {x, Copy} and not a/b -> {y/b, Link}.
C1_PrecedenceFileSource ==
    (pc = "done" /\ PrecedenceCase /\ ~Metadata(fs, AbsX).is_dir) => ExplicitWins

\* the ancestor's expansion of y met b after a/b -> x was recorded
C1_Witness ==
    /\ pc = "done"
    /\ PrecedenceCase
    /\ ~Metadata(fs, AbsX).is_dir
    /\ Metadata(fs, Append(AbsY, "b")).ok
    /\ TargetAB \in DOMAIN compiled
    /\ Append(TargetA, "f") \in DOMAIN compiled

\* the only entry of the run, when there is exactly one
OnlyEntry == entries[1]
OnlySource == Join(OptSource, OnlyEntry.attr.source)
OnlyTarget == Join(OptTarget, OnlyEntry.target)

\* the map a recursive expansion of the only entry must produce: one action
\* per non-directory below the source with no ignored component
ExpansionOf(e) ==
    LET src == Join(OptSource, e.attr.source)
        rels == {rel \in RelPaths :
                    /\ Metadata(fs, Join(src, rel)).ok
                    /\ ~Metadata(fs, Join(src, rel)).is_dir
                    /\ NoComponentIgnored(e.attr.ignore, rel)}
    IN  [t \in {Join(Join(OptTarget, e.target), rel) : rel \in rels} |->
            [source |-> Join(src, SubSeq(t, Len(e.target) + 2, Len(t))),
             ty |-> e.attr.ty]]

RecursiveDirCase ==
    /\ pc = "done"
    /\ Len(entries) = 1
    /\ OnlyEntry.attr.recursive \/ OnlyEntry.attr.ty = "Copy"
    /\ Metadata(fs, OnlySource).is_dir

\* C2: an entry that is recursive or Copy, with a directory as source and no
\* other entry, compiles to exactly one action target/rel -> {source/rel,
\* type} per non-directory rel below the source with no ignored component,
\* and to nothing for the directory or its sub-directories.
C2_RecursiveExpansion == RecursiveDirCase => compiled = ExpansionOf(OnlyEntry)

\* a Copy entry without `recursive` expanded two levels deep past an
\* ignored name
C2_Witness ==
    /\ RecursiveDirCase
    /\ ~OnlyEntry.attr.recursive
    /\ Join(OnlyTarget, <<"b", "f">>) \in DOMAIN compiled
    /\ Join(OnlySource, <<"s1">>) \in DOMAIN fs
    /\ Join(OnlyTarget, <<"s1">>) \notin DOMAIN compiled

LinkDirCase ==
    /\ pc \in {"compile", "done", "failed"}
    /\ Len(entries) = 1
    /\ OnlyEntry.attr.ty = "Link"
    /\ ~OnlyEntry.attr.recursive
    /\ Metadata(fs, OnlySource).is_dir

\* C3: a Link entry that is not recursive and whose source is a directory
\* compiles to the single action target -> {source, Link}; the directory
\* is never listed and nothing is recorded below the target.
C3_LinkWholeDirectory ==
    LinkDirCase =>
        /\ estack = <<>>
        /\ \A t \in DOMAIN compiled : t = OnlyTarget
        /\ pc = "done" =>
              compiled = (OnlyTarget :> [source |-> OnlySource, ty |-> "Link"])

C3_Witness ==
    /\ LinkDirCase
    /\ pc = "done"
    /\ Join(OnlySource, <<"b", "f">>) \in DOMAIN fs
    /\ OnlyTarget \in DOMAIN compiled

TemplateDirCase ==
    /\ Len(entries) = 1
    /\ OnlyEntry.attr.ty = "Template"
    /\ ~OnlyEntry.attr.recursive
    /\ Metadata(fs, OnlySource).is_dir

\* C4: a Template entry that is not recursive and whose source is a
\* directory makes compile fail with UnexpectedDirectoryForTemplate of the
\* absolute source path; no map is returned and none is recorded.
C4_TemplateDirectoryFails ==
    (pc \in {"compile", "done", "failed"} /\ TemplateDirCase) =>
        /\ pc /= "done"
        /\ compiled = <<>>
        /\ (idx = 0 =>
              /\ pc = "failed"
              /\ err = Some([kind |-> "UnexpectedDirectoryForTemplate",
                             path |-> OnlySource]))

C4_Witness ==
    /\ pc = "failed"
    /\ TemplateDirCase
    /\ Unwrap(err).kind = "UnexpectedDirectoryForTemplate"
    /\ Join(OnlySource, <<"f">>) \in DOMAIN fs

\* the entry whose directory the innermost active call is listing
ListingEntry == entries[estack[Len(estack)].e]

\* C5: in the loop over a listed directory, an entry is skipped exactly when
\* its file name alone matches the entry's ignore matcher, and otherwise
\* compile_entry is called on it; no recorded target has an ignored
\* component below its entry's target.
C5_IgnoreByFileName ==
    /\ [][(pc = "compile" /\ estack /= <<>> /\ estack[Len(estack)].rest /= {}) =>
            LET top == estack[Len(estack)]
                did == Unwrap(last')
                filename == Last(did.target)
            IN  /\ filename \in top.rest
                /\ did.target = Append(top.target, filename)
                /\ (did.op = "ignore") <=>
                       IsMatch(ListingEntry.attr.ignore, Chars(filename))]_vars
    /\ [](Len(entries) = 1 =>
            \A t \in DOMAIN compiled :
                NoComponentIgnored(OnlyEntry.attr.ignore,
                                   SubSeq(t, Len(OnlyTarget) + 1, Len(t))))

\* a file two levels down is kept although a glob matches its relative path
C5_Witness ==
    /\ pc = "done"
    /\ Len(entries) = 1
    /\ OnlyEntry.attr.ignore = <<GlobBAll>>
    /\ Join(OnlyTarget, <<"b", "f">>) \in DOMAIN compiled

(***************************************************************************)
(* Properties of into_entries.                                             *)
(***************************************************************************)
\* into_entries has returned Ok
EntriesReturned == pc = "ready"

\* the node and its ancestors in the component tree, the root included
Chain(q) == {SubSeq(q, 1, k) : k \in 0..Len(q)}

\* the value of a field on the nearest node of the chain that declares it
RECURSIVE Nearest(_, _, _)
Nearest(t, q, field) ==
    IF IsSome(t[q][field]) THEN t[q][field]
    ELSE IF q = <<>> THEN None
    ELSE Nearest(t, Parent(q), field)

\* the source a node resolves to
RECURSIVE ResolvedSource(_, _)
ResolvedSource(t, q) ==
    IF IsSome(t[q].source) THEN t[q].source
    ELSE IF q = <<>> THEN None
    ELSE LET up == ResolvedSource(t, Parent(q))
         IN  IF IsSome(up) THEN Some(Append(Unwrap(up), Last(q))) ELSE None

\* what a matcher may be asked about: every name, and a relative path
Subjects == {Chars(n) : n \in Names} \cup {<<"b", "/", "f">>, <<"s">>}

DeclaredOnChain(q, subject) ==
    \E a \in Chain(q) :
        IsSome(tree[a].ignore) /\ IsMatch(Unwrap(tree[a].ignore), subject)

\* C6: the ignore matcher of every entry matches exactly what some pattern
\* declared on the entry's node or on one of its ancestors matches.
C6_IgnoreUnion ==
    EntriesReturned =>
        \A i \in 1..Len(entries) : \A subject \in Subjects :
            IsMatch(entries[i].attr.ignore, subject)
                <=> DeclaredOnChain(entries[i].target, subject)

\* an entry two levels down matching through its own list and through the
\* list of a grandparent that has no source
C6_Witness ==
    /\ EntriesReturned
    /\ \E i \in 1..Len(entries) :
         LET q == entries[i].target
         IN  /\ Len(q) = 3
             /\ tree[q].ignore = Some(<<GlobB>>)
             /\ tree[Parent(q)].ignore = None
             /\ tree[Parent(Parent(q))].ignore = Some(<<GlobS>>)
             /\ tree[Parent(Parent(q))].source = None
             /\ IsMatch(entries[i].attr.ignore, Chars("s1"))
             /\ IsMatch(entries[i].attr.ignore, Chars("b"))

\* C7: a node without a source of its own resolves to its parent's resolved
\* source joined with its component, or to none when the parent has none;
\* a node with a source of its own keeps it.
C7_SourceInheritance ==
    /\ \A i \in 1..Len(cstack) :
          cstack[i].attr.source = ResolvedSource(tree, cstack[i].target)
    /\ EntriesReturned =>
          \A i \in 1..Len(entries) :
              Some(entries[i].attr.source) = ResolvedSource(tree, entries[i].target)

\* a grandchild inheriting through a parent that inherited itself, beside a
\* node that keeps its own source under a sourced parent
C7_Witness ==
    /\ EntriesReturned
    /\ \E i \in 1..Len(entries) :
         /\ entries[i].target = <<"a", "b">>
         /\ tree[<<"a", "b">>].source = None
         /\ tree[<<"a">>].source = None
         /\ entries[i].attr.source = <<"y", "a", "b">>

\* C8: type is the value declared nearest on the chain, or Copy; recursive
\* is the value declared nearest on the chain, or false.
C8_NearestTypeAndRecursive ==
    EntriesReturned =>
        \A i \in 1..Len(entries) :
            LET ty == Nearest(tree, entries[i].target, "ty")
                rec == Nearest(tree, entries[i].target, "recursive")
            IN  /\ entries[i].attr.ty = IF IsSome(ty) THEN Unwrap(ty) ELSE "Copy"
                /\ entries[i].attr.recursive = IF IsSome(rec) THEN Unwrap(rec) ELSE FALSE

\* an entry taking its type from its grandparent and overriding recursive
C8_Witness ==
    /\ EntriesReturned
    /\ \E i \in 1..Len(entries) :
         LET q == entries[i].target
         IN  /\ Len(q) = 2
             /\ tree[q].ty = None
             /\ tree[Parent(q)].ty = None
             /\ tree[<<>>].ty = Some("Link")
             /\ entries[i].attr.ty = "Link"
             /\ tree[q].recursive = Some(FALSE)
             /\ ~entries[i].attr.recursive

\* the nodes that may not have children but do
Offending ==
    {q \in DOMAIN tree :
        /\ Nearest(tree, q, "ty") \in {Some("Link"), Some("Template")}
        /\ Nearest(tree, q, "recursive") /= Some(TRUE)
        /\ TreeChildren(tree, q) /= {}}

FailedWith(kind) == pc = "failed" /\ Unwrap(err).kind = kind

\* C9 as stated: into_entries fails with UnexpectedChildren naming an
\* offending node whenever there is one, and never does otherwise.
C9_UnexpectedChildrenAlways ==
    (pc \in {"ready", "failed"}) =>
        /\ Offending /= {} =>
              FailedWith("UnexpectedChildren") /\ Unwrap(err).path \in Offending
        /\ Offending = {} => ~FailedWith("UnexpectedChildren")

\* C9, amended: whenever there is an offending node into_entries fails, with
\* UnexpectedChildren naming an offending node unless an entry finished
\* earlier in the walk failed with InvalidPatternSet; without an offending
\* node it never fails with UnexpectedChildren.
C9_UnexpectedChildrenUnlessEarlierError ==
    (pc \in {"ready", "failed"}) =>
        /\ Offending /= {} =>
              \/ FailedWith("UnexpectedChildren") /\ Unwrap(err).path \in Offending
              \/ FailedWith("InvalidPatternSet")
        /\ Offending = {} => ~FailedWith("UnexpectedChildren")

\* an offending node without any source and with an inherited type, named
\* by its full path
C9_Witness ==
    /\ FailedWith("UnexpectedChildren")
    /\ Unwrap(err).path = <<"a", "b">>
    /\ ResolvedSource(tree, <<"a", "b">>) = None
    /\ tree[<<"a", "b">>].ty = None
    /\ tree[<<"a", "b">>].recursive = Some(FALSE)

\* C10: a node has an entry exactly when it or one of its ancestors
\* declares a source.
C10_EntryIffSourceOnChain ==
    EntriesReturned =>
        /\ {entries[i].target : i \in 1..Len(entries)}
              = {q \in DOMAIN tree : \E a \in Chain(q) : IsSome(tree[a].source)}
        /\ \A i, j \in 1..Len(entries) :
              entries[i].target = entries[j].target => i = j

\* an undeclared intermediate node under a sourced root has an entry
C10_Witness ==
    /\ EntriesReturned
    /\ DOMAIN profile = ShapeFlat
    /\ profile[<<KAB>>].source = None
    /\ \E i \in 1..Len(entries) :
         entries[i].target = <<"a">> /\ entries[i].attr.source = <<"y", "a">>

\* a node without a source on its chain has none although its child has
C10_WitnessDropped ==
    /\ EntriesReturned
    /\ <<"a">> \in DOMAIN tree
    /\ \A i \in 1..Len(entries) : entries[i].target /= <<"a">>
    /\ \E i \in 1..Len(entries) : entries[i].target = <<"a", "b">>

\* the ignore list a node resolves to: its own globs, then its parent's
RECURSIVE ResolvedIgnore(_, _)
ResolvedIgnore(t, q) ==
    IF q = <<>> THEN t[q].ignore
    ELSE LET up == ResolvedIgnore(t, Parent(q))
         IN  IF IsSome(t[q].ignore) /\ IsSome(up)
             THEN Some(Unwrap(t[q].ignore) \o Unwrap(up))
             ELSE IF IsSome(t[q].ignore) THEN t[q].ignore ELSE up

\* the entry of a node, as the component tree alone determines it
ExpectedEntry(t, q) ==
    LET ty == Nearest(t, q, "ty")
        rec == Nearest(t, q, "recursive")
        ig == ResolvedIgnore(t, q)
    IN  [target |-> q,
         attr |-> [source    |-> Unwrap(ResolvedSource(t, q)),
                   ty        |-> IF IsSome(ty) THEN Unwrap(ty) ELSE "Copy",
                   recursive |-> IF IsSome(rec) THEN Unwrap(rec) ELSE FALSE,
                   ignore    |-> IF IsSome(ig) THEN Unwrap(ig) ELSE <<>>]]

TreeBuilt == pc \in {"collect", "collecting", "ready", "failed", "compile", "done"}

\* the declarations whose keys, concatenated, denote the target path q
DeclarationsOf(q) == {kp \in DOMAIN profile : DeclTarget(kp) = q}

GlobsOf(o) == IF IsSome(o) THEN {Unwrap(o)[i] : i \in 1..Len(Unwrap(o))} ELSE {}

\* C12: the component tree has exactly one node per target path declared
\* and per prefix of one, each one component below its parent; every
\* declaration of a target path, however its keys are split, contributes
\* to the node of that path.
C12_OneNodePerTarget ==
    TreeBuilt =>
        /\ DOMAIN tree = UNION {Chain(DeclTarget(kp)) : kp \in DOMAIN profile}
        /\ \A q \in DOMAIN tree : q /= <<>> => Parent(q) \in DOMAIN tree
        /\ \A q \in DOMAIN tree :
              /\ \A f \in {"source", "ty", "recursive"} :
                    LET vals == {profile[kp][f] : kp \in DeclarationsOf(q)} \ {None}
                    IN  IF vals = {} THEN tree[q][f] = None ELSE tree[q][f] \in vals
              /\ GlobsOf(tree[q].ignore)
                    = UNION {GlobsOf(profile[kp].ignore) : kp \in DeclarationsOf(q)}

\* a/{b} and a/b both give their ignore list to the one node a/b
C12_Witness ==
    /\ pc = "collect"
    /\ DOMAIN profile = ShapeBoth
    /\ profile[<<KA, KB>>].ignore = Some(<<GlobS>>)
    /\ profile[<<KAB>>].ignore = Some(<<GlobB>>)
    /\ profile[<<KAB>>].source = Some(SrcX)
    /\ tree[<<"a", "b">>].ignore = Some(<<GlobB, GlobS>>)
    /\ tree[<<"a", "b">>].source = Some(SrcX)
    /\ DOMAIN tree = {<<>>, <<"a">>, <<"a", "b">>}

\* C13: merging fragment b into fragment a gives, for source, type and
\* recursive, b's value when b sets the field and a's value otherwise.
C13_MergeOverwritesIfPresent ==
    [][(pc = "build" /\ Len(bstack') = Len(bstack) + 1) =>
          LET fr == bstack'[Len(bstack')]
              b == profile[fr.kp]
              a == IF fr.at \in DOMAIN tree THEN tree[fr.at] ELSE DefaultAttr
          IN  \A f \in {"source", "ty", "recursive"} :
                  tree'[fr.at][f] = IF IsSome(b[f]) THEN b[f] ELSE a[f]]_vars

\* a fragment with recursive true and no source was merged into a node
\* that had a source
C13_Witness ==
    /\ pc = "build"
    /\ DOMAIN profile = ShapeBoth
    /\ bstack /= <<>>
    /\ bstack[Len(bstack)].kp = <<KAB>>
    /\ profile[<<KAB>>].source = None
    /\ profile[<<KAB>>].recursive = Some(TRUE)
    /\ profile[<<KA, KB>>].recursive = Some(FALSE)
    /\ tree[<<"a", "b">>].source = Some(SrcX)
    /\ tree[<<"a", "b">>].recursive = Some(TRUE)

\* the order in which a mapping of the profile document lists its keys
KeyOrder == <<KA, KAB, KB>>
KeyRank(k) == CHOOSE i \in 1..Len(KeyOrder) : KeyOrder[i] = k

\* the declaration k1 comes before k2 in the document: a declaration comes
\* before its children, and these in the order of their keys
RECURSIVE DocBefore(_, _)
DocBefore(k1, k2) ==
    IF k2 = <<>> THEN FALSE
    ELSE IF k1 = <<>> THEN TRUE
    ELSE IF Head(k1) = Head(k2) THEN DocBefore(Tail(k1), Tail(k2))
    ELSE KeyRank(Head(k1)) < KeyRank(Head(k2))

DocLast(S) == CHOOSE kp \in S : \A o \in S \ {kp} : DocBefore(o, kp)

\* C14: when several declarations resolve to one node and set the same
\* scalar field, the node has the value of the one that comes last in the
\* document, whatever order the children maps were iterated in.
C14_LastDeclarationWins ==
    TreeBuilt =>
        \A q \in DOMAIN tree : \A f \in {"source", "ty", "recursive"} :
            LET setters == {kp \in DeclarationsOf(q) : IsSome(profile[kp][f])}
            IN  setters /= {} => tree[q][f] = profile[DocLast(setters)][f]

\* the step about to be taken is a call of compile_entry, or the skip of
\* an ignored name
CallStep ==
    /\ pc = "compile"
    /\ \/ estack = <<>> /\ idx > 0
       \/ estack /= <<>> /\ estack[Len(estack)].rest /= {}

\* C15: an action recorded for a target is never replaced or modified; a
\* call of compile_entry for a target already in the map returns success
\* and changes nothing; every change of the map adds one new target.
C15_RecordedOnce ==
    [][/\ pc = "compile" =>
            \A t \in DOMAIN compiled :
                t \in DOMAIN compiled' /\ compiled'[t] = compiled[t]
       /\ (pc = "compile" /\ compiled' /= compiled) =>
            \E t \in DOMAIN compiled' \ DOMAIN compiled :
                DOMAIN compiled' = DOMAIN compiled \cup {t}
       /\ (CallStep /\ Unwrap(last').op /= "ignore"
                     /\ Unwrap(last').target \in DOMAIN compiled) =>
            /\ Unwrap(last').op = "compiled"
            /\ compiled' = compiled
            /\ pc' = "compile"
            /\ err' = None
            /\ Len(estack') <= Len(estack)]_vars

\* the expansion of a reached a/b, a directory, after a/b -> x was recorded
C15_Witness ==
    /\ pc = "done"
    /\ IsSome(last)
    /\ Unwrap(last).op = "compiled"
    /\ Unwrap(last).target = TargetAB
    /\ Metadata(fs, Unwrap(last).source).is_dir
    /\ compiled[TargetAB] = [source |-> AbsX, ty |-> "Link"]

\* what a call of into_entries followed by compile has returned
Returned ==
    IF pc = "done" THEN [ok |-> TRUE, value |-> compiled]
    ELSE IF pc = "failed" THEN [ok |-> FALSE, value |-> Unwrap(err)]
    ELSE [ok |-> FALSE, value |-> "running"]

\* C16: the first step that fails ends the call with that error alone:
\* every active call is unwound, nothing is done afterwards, no entries
\* and no map are returned, and a call that returns a map had no error.
C16_ErrorsAbort ==
    /\ [][/\ pc /= "failed"
          /\ pc' = "failed" =>
                /\ err = None /\ IsSome(err')
                /\ bstack' = <<>> /\ cstack' = <<>> /\ estack' = <<>>
                /\ Returned' = [ok |-> FALSE, value |-> Unwrap(err')]
                /\ compiled' = compiled /\ entries' = entries /\ idx' <= idx]_vars
    /\ [](IsSome(err) <=> pc = "failed")
    /\ []((pc = "failed" /\ Unwrap(err).kind \in {"UnexpectedChildren", "InvalidPatternSet"})
            => entries = <<>> /\ compiled = <<>>)

\* compile failed on entry a after a/b had been expanded
C16_Witness ==
    /\ pc = "failed"
    /\ Unwrap(err).kind = "UnsupportedSymlinks"
    /\ TargetAB \in DOMAIN compiled
    /\ ~Returned.ok

\* the entry of a/b records one action at its own target, below the entry
\* of a, which is expanded
SingleActionCase ==
    /\ pc = "done"
    /\ Len(entries) = 2
    /\ entries[1].target = <<"a">>
    /\ entries[2].target = <<"a", "b">>
    /\ Metadata(fs, Join(OptSource, entries[1].attr.source)).is_dir
    /\ EffectiveRecursive(entries[1].attr)
    /\ ~(/\ Metadata(fs, Join(OptSource, entries[2].attr.source)).is_dir
          /\ EffectiveRecursive(entries[2].attr))

\* C18: when a descendant entry recorded a single action at its target t,
\* the map holds that action at t, nothing beneath t, and besides it
\* exactly the ancestor's expansion outside t, with the ancestor's type
\* and source.
C18_DescendantShieldsItsTarget ==
    SingleActionCase =>
        LET ancestor == ExpansionOf(entries[1])
            outside == {t \in DOMAIN ancestor : ~IsPrefix(TargetAB, t)}
        IN  compiled =
              (TargetAB :> [source |-> Join(OptSource, entries[2].attr.source),
                            ty |-> entries[2].attr.ty])
              @@ [t \in outside |-> ancestor[t]]

\* a/b overrides recursive under a recursive Link ancestor; y/b is a
\* directory holding f, and y/f is expanded as a Link
C18_Witness ==
    /\ SingleActionCase
    /\ tree[<<"a">>].ty = Some("Link")
    /\ tree[<<"a", "b">>].recursive = Some(FALSE)
    /\ tree[<<"a", "b">>].source = None
    /\ Join(AbsY, <<"b", "f">>) \in DOMAIN fs
    /\ compiled[TargetAB] = [source |-> Append(AbsY, "b"), ty |-> "Link"]
    /\ Append(TargetA, "f") \in DOMAIN compiled
    /\ compiled[Append(TargetA, "f")] = [source |-> Append(AbsY, "f"), ty |-> "Link"]

\* C20: when the source path of the only entry is a symbolic link, the
\* action recorded at the entry's target has the link's target as source.
C20_SymlinkSourceReplaced ==
    (/\ pc = "done"
     /\ Len(entries) = 1
     /\ OnlySource \in DOMAIN fs
     /\ fs[OnlySource].kind = "link"
     /\ OnlyTarget \in DOMAIN compiled)
        => compiled[OnlyTarget].source = fs[OnlySource].to

\* the path the left-to-right scan keeps: "." and the root are dropped, a
\* normal component is pushed, ".." removes the component kept last, if any
RECURSIVE Kept(_, _)
Kept(comps, kept) ==
    IF comps = <<>> THEN kept
    ELSE LET c == Head(comps)
         IN  Kept(Tail(comps),
                  CASE c.kind \in {"CurDir", "RootDir"} -> kept
                    [] c.kind = "ParentDir" ->
                         IF kept = <<>> THEN kept ELSE SubSeq(kept, 1, Len(kept) - 1)
                    [] OTHER -> Append(kept, c.name))

StartsWithPrefix(path) ==
    LET comps == Components(path, unix)
    IN  comps # <<>> /\ Head(comps).kind = "Prefix"

OnlyNormal(path) == \A i \in 1..Len(path) : path[i] \notin {"", ".", "..", "/"}

\* the reader is past both calls of normalize_path
Normalized == pc \notin {"read", "normalize", "rejected"}

\* C17: normalize_path returns what the left-to-right scan keeps, built
\* of normal components only, and fails on an input that starts with a
\* platform prefix; the key and the source of the declaration that reaches
\* the tree are the normalized ones.
C17_NormalizePath ==
    LET d == Unwrap(doc)
        key == Kept(Components(d.key, unix), <<>>)
        source == Kept(Components(d.source, unix), <<>>)
    IN  /\ (pc = "normalize" /\ Unwrap(norm).rest = <<>>) =>
               LET call == Unwrap(norm)
               IN  /\ call.buf = IF call.of = "key" THEN key ELSE source
                   /\ OnlyNormal(call.buf)
                   /\ ~StartsWithPrefix(IF call.of = "key" THEN d.key ELSE d.source)
        /\ (StartsWithPrefix(d.key) \/ StartsWithPrefix(d.source)) =>
               /\ pc \in {"read", "normalize", "rejected"}
               /\ pc = "rejected" =>
                      Unwrap(err) = [kind |-> "PathStartsWithPrefix", path |-> <<>>]
               /\ (pc = "normalize" /\ StartsWithPrefix(d.key)) =>
                      Unwrap(norm).of = "key"
        /\ (pc \in {"init", "build"} \/ TreeBuilt) =>
               /\ DOMAIN profile = {<<>>, <<key>>}
               /\ profile[<<key>>].source = Some(source)
               /\ OnlyNormal(key) /\ OnlyNormal(source)
        /\ tree # (<<>> :> DefaultAttr) => (pc = "build" \/ TreeBuilt)

\* C17 witness: "/a/../b" declared with source "../x" has reached the tree
\* as b with source x
C17_Witness ==
    /\ pc = "collect"
    /\ doc = Some([key |-> [root |-> TRUE, segs |-> <<"a", "..", "b">>],
                   source |-> [root |-> FALSE, segs |-> <<"..", "x">>],
                   ignore |-> None])
    /\ DOMAIN tree = {<<>>, <<"b">>}
    /\ tree[<<"b">>].source = Some(<<"x">>)

\* the ignore list of the document holds a glob that Glob::new rejects
HasUnclosedGlob ==
    LET raw == Unwrap(doc).ignore
    IN  IsSome(raw) /\ \E i \in 1..Len(Unwrap(raw)) : Unwrap(raw)[i] = GlobUnclosed

\* the ignore list of the document is made of well-formed globs whose set
\* cannot be built
HasUnbuildableSet ==
    LET raw == Unwrap(doc).ignore
    IN  /\ IsSome(raw)
        /\ ~HasUnclosedGlob
        /\ \E i \in 1..Len(Unwrap(raw)) : Unwrap(raw)[i] = GlobTooBig

\* both paths of the document pass normalize_path
PathsAccepted ==
    /\ ~StartsWithPrefix(Unwrap(doc).key)
    /\ ~StartsWithPrefix(Unwrap(doc).source)

Begun == (1..Len(entries)) \ {FromBack(k) : k \in 1..idx}

\* the entries with a compile_entry call still active
Expanding == {estack[k].e : k \in 1..Len(estack)}

StrictAncestor(p, q) == Len(p) < Len(q) /\ SubSeq(q, 1, Len(p)) = p

\* C22: for two entries of which one target is a strict ancestor of the
\* other, the expansion of the ancestor entry begins only when the
\* descendant entry has been taken and its expansion has returned.
C22_DescendantExpandedFirst ==
    pc \in {"compile", "done"} =>
        \A i, j \in 1..Len(entries) :
            (StrictAncestor(entries[i].target, entries[j].target) /\ i \in Begun) =>
                /\ i < j
                /\ j \in Begun
                /\ j \notin Expanding

\* C22 witness: the directory of entry a is being listed after entry a/b
\* was expanded into the map
C22_Witness ==
    /\ pc = "compile"
    /\ Len(entries) = 2
    /\ entries[1].target = <<"a">> /\ entries[2].target = <<"a", "b">>
    /\ Expanding = {1}
    /\ \E t \in DOMAIN compiled : t = TargetAB \/ StrictAncestor(TargetAB, t)

(***************************************************************************)
(* The final map under the target of a nested entry.                       *)
(***************************************************************************)
\* the target is the given one or lies beneath it
AtOrBeneath(top, t) == IsPrefix(top, t)

\* the entry a/b carries a source of its own, x
NestedDeclaresX ==
    \E j \in 1..Len(entries) :
        entries[j].target = <<"a", "b">> /\ entries[j].attr.source = SrcX

\* C24: with a/b declared beneath a, every action of the final map at or
\* beneath the target of a/b has a source derived from a/b, x or a path
\* below x, never one produced by the expansion of a, whether x is a file or
\* a directory.
C24_DescendantSubtreeIsItsOwn ==
    (pc = "done" /\ NestedDeclaresX) =>
        \A t \in DOMAIN compiled :
            AtOrBeneath(TargetAB, t) => IsPrefix(AbsX, compiled[t].source)

\* C25: in the map compile returns no target is a strict ancestor of
\* another target.
C25_NoTargetBelowAnother ==
    pc = "done" =>
        \A t, u \in DOMAIN compiled : ~StrictAncestor(t, u)

(***************************************************************************)
(* Directories as sources in the final map.                                *)
(***************************************************************************)
\* the source of the action is a directory, as metadata() reports it
DirectorySource(t) == Metadata(fs, compiled[t].source).is_dir

\* the entries whose own call of compile_entry could have recorded t
EntriesAt(t) ==
    {e \in 1..Len(entries) :
        /\ Join(OptTarget, entries[e].target) = t
        /\ Join(OptSource, entries[e].attr.source) = compiled[t].source
        /\ entries[e].attr.ty = compiled[t].ty}

\* C26: in the map compile returns, an action with a directory as source
\* is a Link recorded for an entry whose recursive is false; no Copy or
\* Template action has a directory as source; a Copy entry with a directory
\* as source is expanded even when its recursive is false: its own target is
\* not recorded for it and the files of the directory are.
C26_DirectorySourceIsLink ==
    pc = "done" =>
        /\ \A t \in DOMAIN compiled :
               DirectorySource(t) =>
                   /\ compiled[t].ty = "Link"
                   /\ \E e \in EntriesAt(t) : ~entries[e].attr.recursive
        /\ \A e \in 1..Len(entries) :
               LET target == Join(OptTarget, entries[e].target)
                   source == Join(OptSource, entries[e].attr.source)
                   names == ReadDir(fs, source)
               IN  (entries[e].attr.ty = "Copy" /\ Metadata(fs, source).is_dir) =>
                       /\ target \in DOMAIN compiled =>
                              compiled[target].source # source
                       /\ \A n \in Unwrap(names) :
                              (/\ ~Metadata(fs, Append(source, n)).is_dir
                               /\ ~IsMatch(entries[e].attr.ignore, Chars(n)))
                              => Append(target, n) \in DOMAIN compiled

\* C26 witness: the map holds the Link of the directory x at a/b, declared
\* with recursive false, beside the files of the Copy entry a, expanded
\* without recursive
C26_Witness ==
    /\ pc = "done"
    /\ Len(entries) = 2
    /\ entries[1].attr.ty = "Copy" /\ ~entries[1].attr.recursive
    /\ Append(TargetA, "f") \in DOMAIN compiled
    /\ TargetAB \in DOMAIN compiled
    /\ compiled[TargetAB] = [source |-> AbsX, ty |-> "Link"]
    /\ DirectorySource(TargetAB)
    /\ ~entries[2].attr.recursive

(***************************************************************************)
(* SpecLoop: the declaration a -> y compiled against source trees in which *)
(* symbolic links lead back into the directory being expanded.  compile    *)
(* is one sequential call, so a step that can be taken is eventually       *)
(* taken.                                                                  *)
(***************************************************************************)
\* what y is: a directory with a link to itself, to its parent, or to itself
\* from inside a sub-directory; a link to itself; a plain directory
TreesLoop ==
    {(<<>> :> DirNode) @@ FilesIn({"f"}) @@ (<<"b">> :> LinkNode(AbsY)),
     (<<>> :> DirNode) @@ (<<"b">> :> LinkNode(OptSource)),
     (<<>> :> DirNode) @@ (<<"b">> :> DirNode) @@ (<<"b", "f">> :> LinkNode(AbsY)),
     (<<>> :> DirNode) @@ (<<"f">> :> LinkNode(Join(AbsY, <<"f">>))),
     <<>> :> LinkNode(AbsY)}
    \cup DirTrees({"f"}, MaxDirDepth)

PlatformsLoop == {<<TRUE, SourceTree(<<>> :> FileNode, y)>> : y \in TreesLoop}

NextLoop ==
    \/ NextEntries
    \/ Compile(PlatformsLoop)
    \/ CompileNext
    \/ CompileChild
    \/ CompileReturn
    \/ CompileDone

SpecLoop == Init /\ [][NextLoop]_vars /\ WF_vars(NextLoop)

\* C27: every call of compile ends, with a map or with an error, also when
\* a link inside an expanded directory leads back to that directory or to
\* one above it.
C27_CompileTerminates == (pc = "compile") ~> (pc \in {"done", "failed"})

\* C27 witness: the expansion has gone twice through the link y/b, which
\* leads back to y
C27_Witness ==
    /\ pc = "compile"
    /\ Join(AbsY, <<"b">>) \in DOMAIN fs
    /\ fs[Join(AbsY, <<"b">>)] = LinkNode(AbsY)
    /\ Len(estack) = 3
    /\ estack[3].source = Join(AbsY, <<"b", "b">>)

(***************************************************************************)
(* SpecMerge: Merge for ProfileAttrBuilder called on attributes whose       *)
(* ignore lists are held through Rc.  The heap maps a handle to the list   *)
(* and its strong count; a count above the references the two attributes   *)
(* hold means the list is shared with another node.                        *)
(***************************************************************************)
\* the state of the library calls, which merge and the dbot binary's own
\* steps leave alone
lib == <<doc, norm, profile, pc, tree, bstack, rcs, cstack, collected, entries,
         unix, fs, idx, estack, compiled, last, err>>

\* no library call is running
LibIdle ==
    /\ doc = None
    /\ norm = None
    /\ profile = <<>> :> DefaultAttr
    /\ pc = "idle"
    /\ tree = <<>> :> DefaultAttr
    /\ bstack = <<>>
    /\ rcs = <<>>
    /\ cstack = <<>>
    /\ collected = <<>>
    /\ entries = <<>>
    /\ unix = TRUE
    /\ fs = <<>>
    /\ idx = 0
    /\ estack = <<>>
    /\ compiled = <<>>
    /\ last = None
    /\ err = None

RcObject(b, n) == [builder |-> b, strong |-> n]

\* an Rc is dropped: the count goes down, the object goes with the last one
RcDrop(heap, h) ==
    IF heap[h].strong = 1
    THEN [k \in DOMAIN heap \ {h} |-> heap[k]]
    ELSE [heap EXCEPT ![h].strong = @ - 1]

\* an unwrap that empties the list of an Rc that is still shared
RcUnwrapOrTake(heap, h) ==
    [value |-> heap[h].builder,
     heap |-> IF heap[h].strong = 1 THEN RcDrop(heap, h)
              ELSE [heap EXCEPT ![h] = RcObject(<<>>, @.strong - 1)]]

\* rc_unwrap_or_clone, and Rc::try_unwrap followed by the clone of the Err
\* arm: the list moves out of an Rc held once and is copied out of a shared
\* one; either way this reference is gone
RcUnwrapOrClone(heap, h) ==
    [value |-> heap[h].builder, heap |-> RcDrop(heap, h)]

\* Rc::new
RcNew(heap) == CHOOSE h \in 1..(Cardinality(DOMAIN heap) + 1) : h \notin DOMAIN heap

\* Merge for ProfileAttrBuilder with self and other as m holds them
MergeShared(m) ==
    LET o == m.other.ignore
        scalars == [source |-> MergeOption(m.self.source, m.other.source),
                    ty |-> MergeOption(m.self.ty, m.other.ty),
                    recursive |-> MergeOption(m.self.recursive, m.other.recursive)]
        With(i, heap) ==
            [at |-> "returned", heap |-> heap, other |-> DefaultAttr,
             self |-> [source |-> scalars.source, ty |-> scalars.ty,
                       recursive |-> scalars.recursive, ignore |-> i]]
    IN  IF IsSome(o) /\ m.heap[Unwrap(o)].builder /= <<>>
        THEN LET this == IF IsSome(m.self.ignore)
                         THEN RcUnwrapOrClone(m.heap, Unwrap(m.self.ignore))
                         ELSE [value |-> <<>>, heap |-> m.heap]
                 that == RcUnwrapOrClone(this.heap, Unwrap(o))
                 h == RcNew(that.heap)
             IN  With(Some(h), (h :> RcObject(this.value \o that.value, 1)) @@ that.heap)
        ELSE IF IsSome(o)
        THEN With(m.self.ignore, RcDrop(m.heap, Unwrap(o)))
        ELSE With(m.self.ignore, m.heap)

\* self.merge(other)
MergeCall ==
    /\ IsSome(mrg)
    /\ Unwrap(mrg).at = "call"
    /\ mrg' = Some(MergeShared(Unwrap(mrg)))
    /\ UNCHANGED <<bin, lib>>

\* longest ignore list on either side of a merge
MaxMergeList == 2

MergeLists == UNION {[1..n -> {GlobS, GlobB}] : n \in 0..MaxMergeList}

MergeScalars == Attrs({None, Some(SrcX), Some(SrcY)}, {None}, {None, Some(TRUE)}, {None})

\* the calls: each side without a list or with one, held once or shared with
\* another node; or both sides holding the same Rc
MergeCalls ==
    {[at |-> "call",
      heap |-> [h \in (IF IsSome(a) THEN {1} ELSE {})
                          \cup (IF IsSome(b) THEN {2} ELSE {}) |->
                   IF h = 1 THEN RcObject(Unwrap(a), IF sa THEN 2 ELSE 1)
                   ELSE RcObject(Unwrap(b), IF sb THEN 2 ELSE 1)],
      self |-> [s EXCEPT !.ignore = IF IsSome(a) THEN Some(1) ELSE None],
      other |-> [o EXCEPT !.ignore = IF IsSome(b) THEN Some(2) ELSE None]] :
        a \in {None} \cup {Some(l) : l \in MergeLists},
        b \in {None} \cup {Some(l) : l \in MergeLists},
        sa \in BOOLEAN, sb \in BOOLEAN, s \in MergeScalars, o \in MergeScalars}
    \cup
    {[at |-> "call",
      heap |-> 1 :> RcObject(l, IF sa THEN 3 ELSE 2),
      self |-> [DefaultAttr EXCEPT !.ignore = Some(1)],
      other |-> [DefaultAttr EXCEPT !.ignore = Some(1)]] :
        l \in MergeLists, sa \in BOOLEAN}

InitMerge ==
    /\ mrg \in {Some(m) : m \in MergeCalls}
    /\ load = None
    /\ rt = None
    /\ home = <<>>
    /\ hfile = <<>>
    /\ LibIdle

NextMerge == MergeCall

SpecMerge == InitMerge /\ [][NextMerge]_vars

\* the ignore list an attribute holds: None when absent
IgnoreOf(m, attr) ==
    IF IsSome(attr.ignore) THEN Some(m.heap[Unwrap(attr.ignore)].builder) ELSE None

\* the references to h that self and other hold
HeldByCall(m, h) ==
    (IF m.self.ignore = Some(h) THEN 1 ELSE 0) + (IF m.other.ignore = Some(h) THEN 1 ELSE 0)

\* C23: merging other into self leaves the ignore of self exactly as it was
\* when the list of other is absent or empty, and otherwise makes it the
\* list of self followed by the list of other; a list that another node
\* still shares is left whole for that node.
C23_MergeIgnoreAccumulates ==
    [][(IsSome(mrg) /\ Unwrap(mrg).at = "call" /\ Unwrap(mrg').at = "returned") =>
          LET m == Unwrap(mrg)
              n == Unwrap(mrg')
              a == IgnoreOf(m, m.self)
              b == IgnoreOf(m, m.other)
          IN  /\ (b = None \/ b = Some(<<>>)) =>
                     /\ n.self.ignore = m.self.ignore
                     /\ IgnoreOf(n, n.self) = a
              /\ (b # None /\ b # Some(<<>>)) =>
                     IgnoreOf(n, n.self) =
                         Some((IF IsSome(a) THEN Unwrap(a) ELSE <<>>) \o Unwrap(b))
              /\ \A h \in DOMAIN m.heap :
                     m.heap[h].strong > HeldByCall(m, h) =>
                         /\ h \in DOMAIN n.heap
                         /\ n.heap[h].builder = m.heap[h].builder
                         /\ n.heap[h].strong = m.heap[h].strong - HeldByCall(m, h)
                                                 + HeldByCall(n, h)
    ]_vars

\* C23 witness: two shared lists were merged; the other nodes keep theirs
\* and self holds a new list, the first followed by the second
C23_Witness ==
    /\ IsSome(mrg)
    /\ Unwrap(mrg).at = "returned"
    /\ Unwrap(mrg).heap = (1 :> RcObject(<<GlobS, GlobB>>, 1))
                          @@ (2 :> RcObject(<<GlobB>>, 1))
                          @@ (3 :> RcObject(<<GlobS, GlobB, GlobB>>, 1))
    /\ Unwrap(mrg).self.ignore = Some(3)

(***************************************************************************)
(* SpecLoad: Runtime::load_profile.  A profile file holds an optional data *)
(* mapping and an optional profile; here a profile is the function from    *)
(* its declared targets to their sources, a data mapping the function      *)
(* from its keys to their values.  The main file also lists its imports.   *)
(***************************************************************************)
\* most imports the main profile file lists
MaxImports == 2

LoadProfiles ==
    {None, Some(<<"a">> :> SrcX), Some(<<"a">> :> SrcY), Some(<<"b">> :> SrcY),
     Some((<<"a">> :> SrcX) @@ (<<"b">> :> SrcY))}

LoadData == {None, Some("k" :> 1), Some("m" :> 2)}

ProfileContents == [data : LoadData, profile : LoadProfiles]

\* what is found at the path of an import: a content, or no readable file
ImportFiles == {Some(c) : c \in ProfileContents} \cup {None}

\* Merge for ProfileContent: both fields are Option<T>
MergeContent(this, other) ==
    [data |-> MergeOption(this.data, other.data),
     profile |-> MergeOption(this.profile, other.profile)]

\* the loop of load_profile reads the next import and merges it
LoadImport ==
    /\ IsSome(load)
    /\ Unwrap(load).at = "loading"
    /\ Unwrap(load).todo # <<>>
    /\ LET l == Unwrap(load)
           file == Head(l.todo)
       IN  IF IsSome(file)
           THEN load' = Some([l EXCEPT !.content = MergeContent(@, Unwrap(file)),
                                       !.todo = Tail(@)])
           ELSE load' = Some([l EXCEPT !.at = "failed", !.todo = <<>>])
    /\ UNCHANGED <<mrg, rt, home, hfile, lib>>

\* load_profile returns Ok(new)
LoadReturn ==
    /\ IsSome(load)
    /\ Unwrap(load).at = "loading"
    /\ Unwrap(load).todo = <<>>
    /\ load' = Some([Unwrap(load) EXCEPT !.at = "loaded"])
    /\ UNCHANGED <<mrg, rt, home, hfile, lib>>

\* the main file has been read
InitLoad ==
    /\ load \in {Some([at |-> "loading", main |-> c, import |-> i,
                       content |-> c, todo |-> i]) :
                    c \in ProfileContents,
                    i \in UNION {[1..n -> ImportFiles] : n \in 0..MaxImports}}
    /\ mrg = None
    /\ rt = None
    /\ home = <<>>
    /\ hfile = <<>>
    /\ LibIdle

NextLoad == LoadImport \/ LoadReturn

SpecLoad == InitLoad /\ [][NextLoad]_vars

\* the targets a content declares, the keys its data holds
TargetsOf(c) == IF IsSome(c.profile) THEN DOMAIN Unwrap(c.profile) ELSE {}
KeysOf(c) == IF IsSome(c.data) THEN DOMAIN Unwrap(c.data) ELSE {}

\* the contents of the imported files
Imported(l) == {Unwrap(l.import[i]) : i \in {j \in 1..Len(l.import) : IsSome(l.import[j])}}

\* C30: a target the main profile file declares and no import declares is
\* declared in the loaded profile, with the same attributes; a key of the
\* main file's data that no import holds is in the loaded data, with the
\* same value.
C30_MainDeclarationsKept ==
    (IsSome(load) /\ Unwrap(load).at = "loaded") =>
        LET l == Unwrap(load)
        IN  /\ \A t \in TargetsOf(l.main) :
                   (\A c \in Imported(l) : t \notin TargetsOf(c)) =>
                       /\ t \in TargetsOf(l.content)
                       /\ Unwrap(l.content.profile)[t] = Unwrap(l.main.profile)[t]
            /\ \A k \in KeysOf(l.main) :
                   (\A c \in Imported(l) : k \notin KeysOf(c)) =>
                       /\ k \in KeysOf(l.content)
                       /\ Unwrap(l.content.data)[k] = Unwrap(l.main.data)[k]

(***************************************************************************)
(* SpecCli: runs of the dbot binary, one after another.  Every run is a    *)
(* new process: it reads history.yaml when it first needs the history and  *)
(* works on that copy.  The target filesystem maps a path to what lies     *)
(* there: a regular file, a symbolic link whose source exists, or a        *)
(* symbolic link whose source is gone.  What load_profile, into_entries    *)
(* and compile make of the profile is an input of the run: a map or an     *)
(* error.                                                                  *)
(***************************************************************************)
\* most runs of the binary in a row
MaxRuns == 3

CliTargets == {<<"~", "a">>, <<"~", "b">>}

\* the maps compile may return: target -> type
CompiledMaps == UNION {[T -> {"Copy", "Link"}] : T \in SUBSET CliTargets}

CompileOutcomes == {Some(m) : m \in CompiledMaps} \cup {None}

\* Path::exists: symbolic links are followed, so a link whose source is
\* gone does not exist
Exists(f, t) == t \in DOMAIN f /\ f[t] # "dangling"

Without(f, t) == [q \in DOMAIN f \ {t} |-> f[q]]

Running == IsSome(rt) /\ Unwrap(rt).at # "exited"

RunsSoFar == IF IsSome(rt) THEN Unwrap(rt).run ELSE 0

\* the process ends; `ok` tells whether main returned Ok
Exit(r, ok) == Some([r EXCEPT !.at = "exited", !.ok = ok, !.todo = {}])

\* main: a new process parses its command
Main ==
    /\ ~Running
    /\ RunsSoFar < MaxRuns
    /\ \E cmd \in {"apply", "clean", "ls"} :
           rt' = Some([run |-> RunsSoFar + 1, cmd |-> cmd,
                       at |-> IF cmd = "ls" THEN "ls" ELSE "clean",
                       ok |-> TRUE, history |-> None, popped |-> None,
                       todo |-> {}, entries |-> None,
                       created |-> {}, removed |-> {}, listed |-> {}])
    /\ UNCHANGED <<mrg, load, home, hfile, lib>>

\* Runtime::clean, first line: the history is read and its last entry popped
CleanPop ==
    /\ Running
    /\ Unwrap(rt).at = "clean"
    /\ LET r == Unwrap(rt)
       IN  IF hfile = <<>>
           THEN rt' = Some([r EXCEPT !.history = Some(hfile), !.at = "cleaned"])
           ELSE rt' = Some([r EXCEPT
                               !.history = Some(SubSeq(hfile, 1, Len(hfile) - 1)),
                               !.popped = Some(hfile[Len(hfile)]),
                               !.todo = DOMAIN hfile[Len(hfile)],
                               !.at = "cleaned"])
    /\ UNCHANGED <<mrg, load, home, hfile, lib>>

\* Runtime::clean, one round of the loop over last.entries, in any order;
\* remove_file may fail
CleanRemove ==
    /\ Running
    /\ Unwrap(rt).at = "cleaned"
    /\ LET r == Unwrap(rt)
       IN  \E t \in r.todo :
             IF Exists(home, t)
             THEN \/ /\ home' = Without(home, t)
                     /\ rt' = Some([r EXCEPT !.todo = @ \ {t},
                                             !.removed = @ \cup {t}])
                  \/ /\ rt' = Exit(r, FALSE)
                     /\ UNCHANGED home
             ELSE /\ rt' = Some([r EXCEPT !.todo = @ \ {t}])
                  /\ UNCHANGED home
    /\ UNCHANGED <<mrg, load, hfile, lib>>

\* Runtime::clean returns Ok: the clean command is over, apply goes on
CleanReturn ==
    /\ Running
    /\ Unwrap(rt).at = "cleaned"
    /\ Unwrap(rt).todo = {}
    /\ LET r == Unwrap(rt)
       IN  IF r.cmd = "clean"
           THEN rt' = Exit(r, TRUE)
           ELSE rt' = Some([r EXCEPT !.at = "compile"])
    /\ UNCHANGED <<mrg, load, home, hfile, lib>>

\* Runtime::apply: load_profile, into_entries and compile
ApplyCompile ==
    /\ Running
    /\ Unwrap(rt).at = "compile"
    /\ LET r == Unwrap(rt)
       IN  \E out \in CompileOutcomes :
             IF IsSome(out)
             THEN rt' = Some([r EXCEPT !.entries = out, !.todo = DOMAIN Unwrap(out),
                                       !.at = "write"])
             ELSE rt' = Exit(r, FALSE)
    /\ UNCHANGED <<mrg, load, home, hfile, lib>>

\* dbot::apply, one round of the loop over the entries, in any order: a
\* copy writes the target, through a link if one lies there; symlink fails
\* on a target that is there; any write may fail
ApplyWrite ==
    /\ Running
    /\ Unwrap(rt).at = "write"
    /\ LET r == Unwrap(rt)
           entries_ == Unwrap(r.entries)
       IN  \E t \in r.todo :
             \/ /\ entries_[t] = "Copy"
                /\ IF t \in DOMAIN home /\ home[t] \in {"link", "dangling"}
                   THEN /\ home' = [home EXCEPT ![t] = "link"]
                        /\ rt' = Some([r EXCEPT !.todo = @ \ {t}])
                   ELSE /\ home' = (t :> "file") @@ home
                        /\ rt' = Some([r EXCEPT !.todo = @ \ {t},
                                                !.created = @ \cup {t}])
             \/ /\ entries_[t] = "Link"
                /\ t \notin DOMAIN home
                /\ home' = (t :> "link") @@ home
                /\ rt' = Some([r EXCEPT !.todo = @ \ {t}, !.created = @ \cup {t}])
             \/ /\ rt' = Exit(r, FALSE)
                /\ UNCHANGED home
    /\ UNCHANGED <<mrg, load, hfile, lib>>

\* Runtime::apply, last lines: the entries are pushed and the history saved
ApplySave ==
    /\ Running
    /\ Unwrap(rt).at = "write"
    /\ Unwrap(rt).todo = {}
    /\ LET r == Unwrap(rt)
           history == Append(Unwrap(r.history), Unwrap(r.entries))
       IN  /\ hfile' = history
           /\ rt' = Exit([r EXCEPT !.history = Some(history)], TRUE)
    /\ UNCHANGED <<mrg, load, home, lib>>

\* Runtime::ls
Ls ==
    /\ Running
    /\ Unwrap(rt).at = "ls"
    /\ LET r == Unwrap(rt)
       IN  rt' = Exit([r EXCEPT !.history = Some(hfile),
                                !.listed = IF hfile = <<>> THEN {}
                                           ELSE DOMAIN hfile[Len(hfile)]], TRUE)
    /\ UNCHANGED <<mrg, load, home, hfile, lib>>

\* between two runs the source of a link is deleted
SourceVanishes ==
    /\ ~Running
    /\ \E t \in DOMAIN home :
           /\ home[t] = "link"
           /\ home' = [home EXCEPT ![t] = "dangling"]
    /\ UNCHANGED <<mrg, load, rt, hfile, lib>>

\* nothing was ever applied
InitCli ==
    /\ mrg = None
    /\ load = None
    /\ rt = None
    /\ home = <<>>
    /\ hfile = <<>>
    /\ LibIdle

NextCli ==
    \/ Main
    \/ CleanPop
    \/ CleanRemove
    \/ CleanReturn
    \/ ApplyCompile
    \/ ApplyWrite
    \/ ApplySave
    \/ Ls
    \/ SourceVanishes

SpecCli == InitCli /\ [][NextCli]_vars

\* a run of the given command has ended
Ended(cmd) == IsSome(rt) /\ Unwrap(rt).at = "exited" /\ Unwrap(rt).cmd = cmd

\* the targets the persisted history lists last
ListedLast == IF hfile = <<>> THEN {} ELSE DOMAIN hfile[Len(hfile)]

\* C21: after a clean run that ended without error, none of the targets of
\* the history entry it cleaned is left on the filesystem, neither as a
\* file nor as a link, whether the source of the link is there or not.
C21_CleanRemovesEveryTarget ==
    (Ended("clean") /\ Unwrap(rt).ok /\ IsSome(Unwrap(rt).popped)) =>
        \A t \in DOMAIN Unwrap(Unwrap(rt).popped) : t \notin DOMAIN home

\* C28: after a clean run has ended, the entry it cleaned is no longer in
\* the persisted history: history.yaml holds what the run was left with.
C28_CleanIsDurable ==
    (Ended("clean") /\ IsSome(Unwrap(rt).popped)) =>
        hfile = Unwrap(Unwrap(rt).history)

\* C29: after an apply run has ended, with or without error, every target
\* the run created is listed in the last entry of the persisted history,
\* and no target listed there was removed by the run and not created again.
C29_HistoryTracksApply ==
    Ended("apply") =>
        /\ Unwrap(rt).created \subseteq ListedLast
        /\ \A t \in ListedLast : t \notin (Unwrap(rt).removed \ Unwrap(rt).created)

====
